---- MODULE Spec2Model ----
(***************************************************************************)
(* Model of the dataset discovery and caching core of the eThekwini GIS    *)
(* MCP server (src/src/ethekwini_gis_mcp.py).                              *)
(*                                                                         *)
(* Requests are asyncio tasks on one event loop: a task runs without       *)
(* interruption from one await to the next, so every action below is the   *)
(* code a task executes between two suspension points.                     *)
(*                                                                         *)
(* Text is a sequence of tokens (a token is a TLA+ string standing for a   *)
(* run of characters); Python dicts are insertion-ordered sequences of     *)
(* key/value entries.                                                      *)
(***************************************************************************)
EXTENDS Integers, Sequences, FiniteSets, TLC

(* ------------------------------ bounds -------------------------------- *)

\* total number of requests the model lets arrive
MaxCalls == 2
\* number of clock advances the model lets happen
MaxTicks == 1
\* number of requests the remote answers with anything but its regular answer
MaxFaults == 2

\* number of requests the model lets arrive when they are served one at a time
MaxReads == 1

\* the concurrently served requests (asyncio tasks)
Tasks == {1, 2}

(* ------------------------- program constants -------------------------- *)

\* the freshness window of the staleness gate, in seconds
StaleAfter == 900

None == -1

api_base == <<"https://services3.arcgis.com/HO0zfySJshlD6Twu/arcgis/rest/services">>

LeasesUrl == api_base \o <<"/", "Leases", "/", "FeatureServer">>

\* self.known_services as __init__ leaves it
InitialKnownServices == << [k |-> <<"Leases">>, v |-> LeasesUrl] >>

AcceptedTypes == { <<"FeatureServer">>, <<"MapServer">> }

(* ------------------------------- text --------------------------------- *)

\* str.lower() on the tokens of the model that carry upper-case letters
LowerMap ==
    ("Leases" :> "leases") @@ ("LEASES" :> "leases") @@ ("Roads" :> "roads") @@ ("ROADS" :> "roads") @@
    ("Util" :> "util") @@ ("Env" :> "env") @@ ("Water" :> "water") @@
    ("Parcels" :> "parcels") @@ ("Parks" :> "parks") @@ ("Geocode" :> "geocode") @@
    ("Tool" :> "tool") @@ ("GIS" :> "gis") @@ ("eThekwini" :> "ethekwini") @@
    ("Municipal Services" :> "municipal services") @@
    ("MUNICIPAL SERVICES" :> "municipal services") @@
    ("Feature Service" :> "feature service") @@
    ("FeatureServer" :> "featureserver") @@ ("MapServer" :> "mapserver") @@
    ("GPServer" :> "gpserver") @@
    (" feature service from eThekwini municipality" :>
         " feature service from ethekwini municipality") @@
    (" service from eThekwini municipality" :> " service from ethekwini municipality")

LowerToken(t) == IF t \in DOMAIN LowerMap THEN LowerMap[t] ELSE t

Lower(s) == [i \in DOMAIN s |-> LowerToken(s[i])]

\* str.replace("/", "_")
ReplaceSlash(s) == [i \in DOMAIN s |-> IF s[i] = "/" THEN "_" ELSE s[i]]

(* ------------------------------- dicts -------------------------------- *)

Keys(d) == { d[i].k : i \in DOMAIN d }

HasKey(d, key) == \E i \in DOMAIN d : d[i].k = key

DictGet(d, key) == d[CHOOSE i \in DOMAIN d : d[i].k = key].v

\* as DictSet, but a key that is present keeps the value it has
DictSetKeepFirst(d, key, val) ==
    IF HasKey(d, key) THEN d ELSE Append(d, [k |-> key, v |-> val])

\* d[key] = val: an existing key keeps its place, a new key goes last
DictSet(d, key, val) ==
    IF HasKey(d, key)
    THEN [i \in DOMAIN d |-> IF d[i].k = key THEN [k |-> key, v |-> val] ELSE d[i]]
    ELSE Append(d, [k |-> key, v |-> val])

\* dict.get(field, default) on a JSON object
Get(obj, field, default) == IF HasKey(obj, field) THEN DictGet(obj, field) ELSE default

(* ------------------------------- JSON --------------------------------- *)

\* a parsed response body: an object, some other (truthy) value, or absent
JDict(o) == [t |-> "dict", o |-> o]
JList == [t |-> "list", o |-> <<>>]
JNone == [t |-> "none", o |-> <<>>]
\* a body on which response.json() raises
Malformed == [t |-> "malformed", o |-> <<>>]

\* Python truth value of a parsed body ("if service_info:")
Truthy(j) == j.t = "list" \/ (j.t = "dict" /\ j.o # <<>>)

Svc(name, type) == << [k |-> "name", v |-> name], [k |-> "type", v |-> type] >>

(* ------------------------- the remote service ------------------------- *)

Threw == [throws |-> TRUE, status |-> 0, body |-> JNone]
Status(code, body) == [throws |-> FALSE, status |-> code, body |-> body]

InfoLayers == << [k |-> "layers", v |-> <<"0", "1">>] >>
InfoFull ==
    << [k |-> "serviceDescription", v |-> <<"Parcels">>],
       [k |-> "description", v |-> <<"land">>],
       [k |-> "layers", v |-> <<"0">>] >>

\* the descriptor the remote holds for a service endpoint
RemoteInfo(url) == IF url = LeasesUrl THEN InfoFull ELSE InfoLayers

\* what a GET on a service endpoint can answer
ServiceResponses(url) ==
    << Threw, Status(404, JNone), Status(200, Malformed), Status(200, JDict(<<>>)),
       Status(200, JList), Status(200, JDict(RemoteInfo(url))) >>

CatFull ==
    << [k |-> "services",
        v |-> << Svc(<<"Leases">>, <<"FeatureServer">>),
                 Svc(<<"Roads">>, <<"MapServer">>),
                 Svc(<<"Geocode">>, <<"GPServer">>) >>],
       [k |-> "folders", v |-> << <<"Util">>, <<"Env">> >>] >>

\* what a GET on the root catalog can answer
RootResponses ==
    << Threw, Status(503, JNone), Status(200, Malformed), Status(200, JList),
       Status(200, JDict(<<>>)), Status(200, JDict(CatFull)) >>

FolderCat ==
    << [k |-> "services",
        v |-> << Svc(<<"Water">>, <<"FeatureServer">>),
                 Svc(<<"Tool">>, <<"GPServer">>) >>] >>

\* what a GET on a folder catalog can answer
FolderResponses ==
    << Threw, Status(404, JNone), Status(200, Malformed), Status(200, JList),
       Status(200, JDict(<<>>)), Status(200, JDict(FolderCat)) >>

\* the arguments add_known_service is called with
AddNames == { <<"Roads">>, <<"ROADS">>, <<"Parks">> }
AddUrls == { <<"https://alt/FeatureServer">> }

(* ----------------------- _get_service_info ---------------------------- *)

\* the parsed body on status 200, None on any other status or exception
get_service_info(r) ==
    IF r.throws THEN JNone
    ELSE IF r.status = 200
         THEN (IF r.body.t = "malformed" THEN JNone ELSE r.body)
         ELSE JNone

(* ------------------------- dataset records ---------------------------- *)

FixedTags == << <<"eThekwini">>, <<"municipality">>, <<"GIS">> >>
FixedCategories == << <<"Municipal Services">> >>

DatasetRecord(id, name, title, description, type, url, tags, categories, info) ==
    [id |-> id, name |-> name, title |-> title, description |-> description,
     type |-> type, url |-> url, created |-> <<>>, updated |-> <<>>,
     tags |-> tags, categories |-> categories,
     owner |-> <<"eThekwini Municipality">>,
     service_info |-> info, layers |-> Get(info, "layers", <<>>)]

ServiceEntry(name, url, type, dataset_id, info) ==
    [name |-> name, url |-> url, type |-> type, dataset_id |-> dataset_id, info |-> info]

\* the record built for an entry of known_services
KnownDataset(service_name, service_url, info) ==
    DatasetRecord(Lower(service_name), service_name,
                  Get(info, "serviceDescription", service_name),
                  Get(info, "description",
                      service_name \o <<" feature service from eThekwini municipality">>),
                  <<"Feature Service">>, service_url, FixedTags, FixedCategories, info)

\* as RootDataset, but the id is the service name as listed
RootDatasetRawId(service_name, service_type, service_url, info) ==
    DatasetRecord(service_name, service_name,
                  Get(info, "serviceDescription", service_name),
                  Get(info, "description",
                      service_name \o <<" service from eThekwini municipality">>),
                  service_type, service_url, FixedTags, FixedCategories, info)

\* the record built for a service listed at the root of the catalog
RootDataset(service_name, service_type, service_url, info) ==
    DatasetRecord(Lower(service_name), service_name,
                  Get(info, "serviceDescription", service_name),
                  Get(info, "description",
                      service_name \o <<" service from eThekwini municipality">>),
                  service_type, service_url, FixedTags, FixedCategories, info)

FullServiceName(folder, service_name) == folder \o <<"/">> \o service_name

\* as FolderDataset, but the id keeps the "/" of the folder-qualified name
FolderDatasetRawId(folder, service_name, service_type, service_url, info) ==
    DatasetRecord(Lower(FullServiceName(folder, service_name)),
                  FullServiceName(folder, service_name),
                  Get(info, "serviceDescription", service_name),
                  Get(info, "description",
                      service_name \o <<" service from eThekwini municipality">>),
                  service_type, service_url,
                  Append(FixedTags, folder), Append(FixedCategories, folder), info)

\* as FolderDataset, but the folder is left out of the tags and categories
FolderDatasetUntagged(folder, service_name, service_type, service_url, info) ==
    DatasetRecord(ReplaceSlash(Lower(FullServiceName(folder, service_name))),
                  FullServiceName(folder, service_name),
                  Get(info, "serviceDescription", service_name),
                  Get(info, "description",
                      service_name \o <<" service from eThekwini municipality">>),
                  service_type, service_url, FixedTags, FixedCategories, info)

\* the record built for a service listed in a folder
FolderDataset(folder, service_name, service_type, service_url, info) ==
    DatasetRecord(ReplaceSlash(Lower(FullServiceName(folder, service_name))),
                  FullServiceName(folder, service_name),
                  Get(info, "serviceDescription", service_name),
                  Get(info, "description",
                      service_name \o <<" service from eThekwini municipality">>),
                  service_type, service_url,
                  Append(FixedTags, folder), Append(FixedCategories, folder), info)

(* ------------------- the local state of one request ------------------- *)

NoItem == [name |-> <<>>, type |-> <<>>, url |-> <<>>, folder |-> <<>>]

\* a request that has not started; _refresh_datasets begins with empty working sets
IdleLocal ==
    [pc |-> "idle", op |-> "none", force |-> FALSE, name |-> <<>>, url |-> <<>>,
     args |-> <<>>, params |-> <<>>, seq |-> 0,
     all_datasets |-> <<>>, all_services |-> <<>>,
     it_pos |-> 1, it_used |-> 0, cur |-> NoItem,
     services |-> <<>>, si |-> 1, folders |-> <<>>, fi |-> 1,
     fservices |-> <<>>, fsi |-> 1,
     reqs |-> <<>>, res |-> <<>>, outcome |-> "none"]

Request(l, pc, item) ==
    [l EXCEPT !.pc = pc, !.cur = item, !.reqs = Append(@, item.url)]

(* -------------------- the walk of _refresh_datasets ------------------- *)

RootCatalogUrl == api_base \o <<"?f=json">>
FolderCatalogUrl(folder) == api_base \o <<"/">> \o folder \o <<"?f=json">>
ServiceUrl(name, type) == api_base \o <<"/">> \o name \o <<"/">> \o type

\* the working sets are complete: they are installed next
WalkDone(l) == [l EXCEPT !.pc = "install", !.cur = NoItem]

\* the next folder of the root catalog, or the end of the walk
FolderNext(l) ==
    IF l.fi > Len(l.folders)
    THEN WalkDone(l)
    ELSE LET folder == l.folders[l.fi]
         IN Request([l EXCEPT !.fi = @ + 1, !.fservices = <<>>, !.fsi = 1],
                    "folder_wait",
                    [NoItem EXCEPT !.folder = folder, !.url = FolderCatalogUrl(folder)])

RECURSIVE FolderSvcNext(_)
\* the next service of the current folder that has an accepted type
FolderSvcNext(l) ==
    IF l.fsi > Len(l.fservices)
    THEN FolderNext(l)
    ELSE LET service == l.fservices[l.fsi]
             service_name == Get(service, "name", <<>>)
             service_type == Get(service, "type", <<>>)
             full == FullServiceName(l.cur.folder, service_name)
             l1 == [l EXCEPT !.fsi = @ + 1]
         IN IF service_type \in AcceptedTypes
            THEN Request(l1, "foldersvc_wait",
                         [name |-> service_name, type |-> service_type,
                          url |-> ServiceUrl(full, service_type), folder |-> l.cur.folder])
            ELSE FolderSvcNext(l1)

RECURSIVE RootSvcNextUnfiltered(_, _)
\* as RootSvcNext, but every listed service is probed
RootSvcNextUnfiltered(l, known) ==
    IF l.si > Len(l.services)
    THEN FolderNext(l)
    ELSE LET service == l.services[l.si]
             service_name == Get(service, "name", <<>>)
             service_type == Get(service, "type", <<>>)
         IN Request([l EXCEPT !.si = @ + 1], "rootsvc_wait",
                    [name |-> service_name, type |-> service_type,
                     url |-> ServiceUrl(service_name, service_type), folder |-> <<>>])

RECURSIVE RootSvcNext(_, _)
\* the next root service that has an accepted type and is no known service
RootSvcNext(l, known) ==
    IF l.si > Len(l.services)
    THEN FolderNext(l)
    ELSE LET service == l.services[l.si]
             service_name == Get(service, "name", <<>>)
             service_type == Get(service, "type", <<>>)
             l1 == [l EXCEPT !.si = @ + 1]
         IN IF service_type \in AcceptedTypes /\ ~HasKey(known, service_name)
            THEN Request(l1, "rootsvc_wait",
                         [name |-> service_name, type |-> service_type,
                          url |-> ServiceUrl(service_name, service_type), folder |-> <<>>])
            ELSE RootSvcNext(l1, known)

\* the dict iterator of "for ... in self.known_services.items()"
KnownNext(l, known) ==
    IF Len(known) # l.it_used
    THEN [l EXCEPT !.pc = "error", !.cur = NoItem]
    ELSE IF l.it_pos > Len(known)
         THEN Request(l, "root_wait", [NoItem EXCEPT !.url = RootCatalogUrl])
         ELSE LET e == known[l.it_pos]
              IN Request([l EXCEPT !.it_pos = @ + 1], "known_wait",
                         [name |-> e.k, type |-> <<"Feature Service">>,
                          url |-> e.v, folder |-> <<>>])

\* whether the probe of the current item yields a record
Usable(info) == Truthy(info) /\ info.t = "dict"

\* _get_service_info hands the walk a descriptor or nothing, whatever went wrong
Probed(l, info) == [l EXCEPT !.res = Append(@, IF Usable(info) THEN "ok" ELSE "fail")]

InsertKnown(l, info) ==
    [l EXCEPT
       !.all_datasets = DictSet(@, Lower(l.cur.name),
                                KnownDataset(l.cur.name, l.cur.url, info.o)),
       !.all_services = DictSet(@, l.cur.name,
                                ServiceEntry(l.cur.name, l.cur.url, <<"Feature Service">>,
                                             Lower(l.cur.name), info.o))]

InsertRoot(l, info) ==
    [l EXCEPT
       !.all_datasets = DictSet(@, Lower(l.cur.name),
                                RootDataset(l.cur.name, l.cur.type, l.cur.url, info.o)),
       !.all_services = DictSet(@, l.cur.name,
                                ServiceEntry(l.cur.name, l.cur.url, l.cur.type,
                                             Lower(l.cur.name), info.o))]

InsertFolder(l, info) ==
    LET full == FullServiceName(l.cur.folder, l.cur.name)
    IN [l EXCEPT
          !.all_datasets = DictSet(@, ReplaceSlash(Lower(full)),
                                   FolderDataset(l.cur.folder, l.cur.name, l.cur.type,
                                                 l.cur.url, info.o)),
          !.all_services = DictSet(@, full,
                                   ServiceEntry(full, l.cur.url, l.cur.type,
                                                ReplaceSlash(Lower(full)), info.o))]

\* as AfterKnown, but a probe that yields nothing is sent again
AfterKnownRetrying(l, r, known) ==
    LET info == get_service_info(r)
        l1 == Probed(l, info)
    IN IF Usable(info) THEN KnownNext(InsertKnown(l1, info), known)
       ELSE Request(l1, "known_wait", l.cur)

\* as AfterKnown, but a probe that yields nothing ends the walk
AfterKnownAborting(l, r, known) ==
    LET info == get_service_info(r)
        l1 == Probed(l, info)
    IN IF Usable(info) THEN KnownNext(InsertKnown(l1, info), known) ELSE WalkDone(l1)

\* a known-service probe answered r: lines 508-538, then the loop goes on
AfterKnown(l, r, known) ==
    LET info == get_service_info(r)
        l1 == Probed(l, info)
    IN KnownNext(IF Usable(info) THEN InsertKnown(l1, info) ELSE l1, known)

\* whether the root or a folder catalog answer can be walked
Listing(r) == ~r.throws /\ r.status = 200 /\ r.body.t = "dict"

\* how a catalog request ended: client.get raised, or the answer was of no use
Ended(r) == IF Listing(r) THEN "ok" ELSE IF r.throws THEN "threw" ELSE "fail"

\* as AfterRoot, but a failed catalog request abandons the pass
AfterRootAborting(l, r, known) ==
    LET l1 == [l EXCEPT !.res = Append(@, Ended(r))]
    IN IF Listing(r)
       THEN RootSvcNext([l1 EXCEPT !.services = Get(r.body.o, "services", <<>>),
                                   !.folders = Get(r.body.o, "folders", <<>>),
                                   !.si = 1, !.fi = 1], known)
       ELSE [l1 EXCEPT !.pc = "error", !.cur = NoItem]

\* the root catalog answered r: lines 542-547, 637-638
AfterRoot(l, r, known) ==
    LET l1 == [l EXCEPT !.res = Append(@, Ended(r))]
    IN IF Listing(r)
       THEN RootSvcNext([l1 EXCEPT !.services = Get(r.body.o, "services", <<>>),
                                   !.folders = Get(r.body.o, "folders", <<>>),
                                   !.si = 1, !.fi = 1], known)
       ELSE WalkDone(l1)

\* a root-service probe answered r: lines 555-585
AfterRootSvc(l, r, known) ==
    LET info == get_service_info(r)
        l1 == Probed(l, info)
    IN RootSvcNext(IF Usable(info) THEN InsertRoot(l1, info) ELSE l1, known)

\* as AfterFolder, but a failed folder ends the walk of the folders
AfterFolderAborting(l, r) ==
    LET l1 == [l EXCEPT !.res = Append(@, Ended(r))]
    IN IF Listing(r)
       THEN FolderSvcNext([l1 EXCEPT !.fservices = Get(r.body.o, "services", <<>>),
                                     !.fsi = 1])
       ELSE WalkDone(l1)

\* a folder catalog answered r: lines 590-594, 634-635
AfterFolder(l, r) ==
    LET l1 == [l EXCEPT !.res = Append(@, Ended(r))]
    IN IF Listing(r)
       THEN FolderSvcNext([l1 EXCEPT !.fservices = Get(r.body.o, "services", <<>>),
                                     !.fsi = 1])
       ELSE FolderNext(l1)

\* a folder-service probe answered r: lines 603-633
AfterFolderSvc(l, r) ==
    LET info == get_service_info(r)
        l1 == Probed(l, info)
    IN FolderSvcNext(IF Usable(info) THEN InsertFolder(l1, info) ELSE l1)

(* ------------------------------- state -------------------------------- *)

VARIABLES
    known_services,     \* self.known_services
    cached_datasets,    \* self.cached_datasets
    cached_services,    \* self.cached_services
    last_refresh,       \* self.last_refresh (None until the first installed pass)
    now,                \* time.time()
    pass,               \* per task: where its request stands, and its locals
    last_pass,          \* the locals of the call of _refresh_datasets that ended last
    ret,                \* what the request that finished last returned
    generation,         \* the working sets installed last, and whether installing
                        \* them dropped an entry of the cache they replaced
    calls,              \* number of requests that have arrived
    faults,             \* number of irregular answers the remote has given
    server_instance     \* the servers get_server_instance has constructed (0: None)

vars == <<known_services, cached_datasets, cached_services, last_refresh, now,
          pass, last_pass, ret, generation, calls, faults, server_instance>>

\* the clock of the model starts at a positive reading and advances by one window
ClockStart == StaleAfter
ClockStep == StaleAfter

NoResult ==
    [task |-> 0, op |-> "none", raised |-> FALSE, n_datasets |-> 0, n_services |-> 0,
     name |-> <<>>, url |-> <<>>, resources |-> <<>>,
     args |-> <<>>, out |-> <<>>, error |-> "none", status |-> 0, n_requests |-> 0,
     content |-> <<>>]

Init ==
    /\ known_services = InitialKnownServices
    /\ cached_datasets = <<>>
    /\ cached_services = <<>>
    /\ last_refresh = None
    /\ now = ClockStart
    /\ pass = [t \in Tasks |-> IdleLocal]
    /\ last_pass = IdleLocal
    /\ ret = NoResult
    /\ generation = [datasets |-> <<>>, services |-> <<>>, dropped |-> FALSE, seq |-> 0]
    /\ calls = 0
    /\ faults = 0
    /\ server_instance = 0

(* ----------------------- the readers of the cache --------------------- *)

\* the arguments the tool search_datasets is called with
Queries == { <<>>, <<"LEASES">>, <<"gis">>, <<"Water">> }
Categories == { <<>>, <<"MUNICIPAL SERVICES">>, <<"util">> }
Limits == {0, 1, 2, 20}

\* the argument the tool get_dataset_info is called with
LookupIds ==
    { <<"leases">>, <<"LEASES">>, <<"parcels">>, <<"Util", "/", "Water">>,
      <<"geocode">>, <<>> }

\* sep.join(parts)
RECURSIVE Join(_, _)
Join(parts, sep) ==
    IF parts = <<>> THEN <<>>
    ELSE IF Len(parts) = 1 THEN parts[1]
    ELSE parts[1] \o sep \o Join(Tail(parts), sep)

\* "q in text" on strings
Contains(text, q) ==
    \E i \in 1..(Len(text) - Len(q) + 1) : SubSeq(text, i, i + Len(q) - 1) = q

\* lines 662-667
SearchableText(d) ==
    Lower(Join(<<d.name, d.title, d.description, Join(d.tags, <<" ">>)>>, <<" ">>))

\* lines 659-675: an empty query or category does not filter
Matches(d, query, category) ==
    /\ query # <<>> => Contains(SearchableText(d), Lower(query))
    /\ category # <<>> =>
          \E i \in DOMAIN d.categories : Lower(d.categories[i]) = Lower(category)

RECURSIVE SearchFrom(_, _, _, _, _, _)
\* the loop of lines 657-680 from entry i on, with the results collected so far
SearchFrom(datasets, i, results, query, category, limit) ==
    IF i > Len(datasets) THEN results
    ELSE IF Matches(datasets[i].v, query, category)
         THEN LET r == Append(results, datasets[i].v)
              IN IF Len(r) >= limit THEN r
                 ELSE SearchFrom(datasets, i + 1, r, query, category, limit)
         ELSE SearchFrom(datasets, i + 1, results, query, category, limit)

\* _search_datasets after its refresh
search_datasets(datasets, query, category, limit) ==
    SearchFrom(datasets, 1, <<>>, query, category, limit)

\* as get_dataset_info, but an unknown identifier yields the first record
GetDatasetInfoLenient(datasets, dataset_id) ==
    IF HasKey(datasets, dataset_id)
    THEN [found |-> TRUE, record |-> DictGet(datasets, dataset_id)]
    ELSE LET hits == { i \in DOMAIN datasets :
                          \/ Lower(datasets[i].v.name) = Lower(dataset_id)
                          \/ Lower(datasets[i].v.title) = Lower(dataset_id) }
         IN IF hits # {}
            THEN [found |-> TRUE,
                  record |-> datasets[CHOOSE i \in hits : \A j \in hits : i <= j].v]
            ELSE [found |-> datasets # <<>>,
                  record |-> IF datasets # <<>> THEN datasets[1].v ELSE <<>>]

\* _get_dataset_info after its refresh: by key, else by name or title, else
\* ValueError("Dataset not found: ...")
get_dataset_info(datasets, dataset_id) ==
    IF HasKey(datasets, dataset_id)
    THEN [found |-> TRUE, record |-> DictGet(datasets, dataset_id)]
    ELSE LET hits == { i \in DOMAIN datasets :
                          \/ Lower(datasets[i].v.name) = Lower(dataset_id)
                          \/ Lower(datasets[i].v.title) = Lower(dataset_id) }
         IN IF hits # {}
            THEN [found |-> TRUE,
                  record |-> datasets[CHOOSE i \in hits : \A j \in hits : i <= j].v]
            ELSE [found |-> FALSE, record |-> <<>>]

(* ---------------------- function_app.spatial_query -------------------- *)

\* the route parameter and the request body of POST datasets/{dataset_id}/spatial
RouteIds == { <<>>, <<"leases">> }
Bodies ==
    { [json |-> FALSE, geometry |-> <<>>], [json |-> TRUE, geometry |-> <<>>],
      [json |-> TRUE, geometry |-> <<"rings">>] }

\* lines 181-207 once get_server_instance has returned: the status of the response;
\* EThekwiniGISServer has no method spatial_query, so line 200 ends in handle_error
spatial_query(args) ==
    IF args.dataset_id = <<>> THEN 400
    ELSE IF ~args.body.json THEN 400
    ELSE IF args.body.geometry = <<>> THEN 400
    ELSE 500

(* ------------------------ the callers' results ------------------------ *)

\* the tools handle_call_tool dispatches to (lines 372-477) that the model calls
ToolNames ==
    {"refresh_datasets", "search_datasets", "get_dataset_info", "query_feature_layer",
     "get_layer_statistics", "get_layer_fields", "spatial_query_by_coordinates",
     "add_known_service"}

\* calls the dispatcher cannot serve: a name it does not know (line 481), and
\* add_known_service without its service_name (KeyError at line 461)
RejectedCalls ==
    { [name |-> "no_such_tool", error |-> "Unknown tool: no_such_tool"],
      [name |-> "add_known_service", error |-> "'service_name'"] }

\* the text of a successful tool call
SuccessText(r) ==
    CASE r.op = "refresh_datasets" ->
            <<"Refreshed datasets. Found ", r.n_datasets, " datasets and ",
              r.n_services, " services.">>
      [] r.op = "add_known_service" ->
            <<"Successfully added service '">> \o r.name \o <<"' at ">> \o r.url
                \o <<". Found ", r.n_datasets, " total datasets.">>
      [] OTHER -> <<"json.dumps", r.out>>

\* as handle_call_tool, without "except Exception": a failure escapes the handler
HandleCallToolReraising(r) ==
    IF r.raised THEN <<>> ELSE << [type |-> "text", text |-> SuccessText(r)] >>

\* what handle_call_tool returns for the call that ended as r: lines 371-489
handle_call_tool(r) ==
    IF r.raised
    THEN << [type |-> "text", text |-> <<"Error executing ", r.op, ": ", r.error>>] >>
    ELSE << [type |-> "text", text |-> SuccessText(r)] >>

\* the result of a call, with what the dispatcher hands the client
Dispatched(r) ==
    [r EXCEPT !.content = IF r.op \in ToolNames \cup {c.name : c \in RejectedCalls}
                          THEN handle_call_tool(r) ELSE <<>>]

DatasetResource(e) ==
    [uri |-> <<"ethekwini-gis://dataset/">> \o e.k,
     name |-> <<"Dataset: ">> \o e.v.name,
     description |-> e.v.description]

ServiceResource(e) ==
    [uri |-> <<"ethekwini-gis://service/">> \o e.k,
     name |-> <<"Service: ">> \o e.k,
     description |-> <<"eThekwini GIS Service">>]

\* the URIs handle_read_resource is called with
ReadUris ==
    { <<"ethekwini-gis://dataset/", "leases">>,
      <<"ethekwini-gis://dataset/", "util", "_", "water">>,
      <<"ethekwini-gis://service/", "Leases">>,
      <<"ethekwini-gis://service/", "Util", "/", "Water">>,
      <<"ethekwini-gis://dataset/", "nothing">>,
      <<"http://dataset/", "leases">> }

RECURSIVE UpToSlash(_)
\* str.split("/")[0] of a text that is not empty
UpToSlash(s) ==
    IF s = <<>> \/ s[1] = "/" THEN <<>> ELSE <<s[1]>> \o UpToSlash(Tail(s))

\* lines 99-101: the resource type and parts[1] of the URI without its scheme
ParseUri(uri) ==
    [scheme_ok |-> uri[1] \in {"ethekwini-gis://dataset/", "ethekwini-gis://service/"},
     resource_type |-> IF uri[1] = "ethekwini-gis://dataset/" THEN "dataset"
                       ELSE IF uri[1] = "ethekwini-gis://service/" THEN "service"
                       ELSE "none",
     resource_id |-> UpToSlash(Tail(uri))]

\* handle_read_resource after its refresh: lines 105-110
read_resource(uri, datasets, services) ==
    LET p == ParseUri(uri)
    IN IF ~p.scheme_ok
       THEN [raised |-> TRUE, error |-> "ValueError: Unsupported URI scheme", out |-> <<>>]
       ELSE IF p.resource_type = "dataset" /\ HasKey(datasets, p.resource_id)
       THEN [raised |-> FALSE, error |-> "none",
             out |-> <<"json.dumps", DictGet(datasets, p.resource_id)>>]
       ELSE IF p.resource_type = "service" /\ HasKey(services, p.resource_id)
       THEN [raised |-> FALSE, error |-> "none",
             out |-> <<"json.dumps", DictGet(services, p.resource_id)>>]
       ELSE [raised |-> TRUE, error |-> "ValueError: Resource not found", out |-> <<>>]

\* handle_list_resources after its refresh: the datasets, then the services
ListResources(datasets, services) ==
    [i \in 1..(Len(datasets) + Len(services)) |->
        IF i <= Len(datasets)
        THEN DatasetResource(datasets[i])
        ELSE ServiceResource(services[i - Len(datasets)])]

\* what the caller of _refresh_datasets answers once the call has returned,
\* reading the cache as it is at that moment
Result(t, l, datasets, services) ==
  Dispatched(
    [NoResult EXCEPT
       !.task = t,
       !.op = l.op,
       !.n_datasets = IF l.op \in {"refresh_datasets", "add_known_service"}
                      THEN Len(datasets) ELSE 0,
       !.n_services = IF l.op = "refresh_datasets" THEN Len(services) ELSE 0,
       !.name = l.name,
       !.url = l.url,
       !.resources = IF l.op = "list_resources"
                     THEN ListResources(datasets, services) ELSE <<>>,
       !.args = l.args,
       !.out = CASE l.op = "search_datasets" ->
                       search_datasets(datasets, l.args.query, l.args.category,
                                       l.args.limit)
                 [] l.op = "get_dataset_info" ->
                       get_dataset_info(datasets, l.args.dataset_id).record
                 [] l.op = "read_resource" ->
                       read_resource(l.args.uri, datasets, services).out
                 [] OTHER -> <<>>,
       !.raised = \/ l.op = "get_dataset_info"
                       /\ ~get_dataset_info(datasets, l.args.dataset_id).found
                  \/ l.op = "read_resource"
                       /\ read_resource(l.args.uri, datasets, services).raised,
       !.error = IF l.op = "get_dataset_info"
                      /\ ~get_dataset_info(datasets, l.args.dataset_id).found
                  THEN "ValueError: Dataset not found"
                  ELSE IF l.op = "read_resource"
                  THEN read_resource(l.args.uri, datasets, services).error
                  ELSE "none",
       !.status = IF l.op = "spatial_query" THEN spatial_query(l.args) ELSE 0,
       !.n_requests = Len(l.reqs)])

(* ---------------------- the end of _refresh_datasets ------------------ *)

\* as Fresh, with the comparison turned round
FreshInverted(force, last, clock) ==
    ~force /\ last # None /\ last # 0 /\ (clock - last) > StaleAfter

\* the staleness gate of line 496
Fresh(force, last, clock) ==
    ~force /\ last # None /\ last # 0 /\ (clock - last) < StaleAfter

\* as OuterHandlerCatches, without the handler
OuterHandlerMissing == FALSE

\* "except Exception" of line 646 catches what escapes the loops
OuterHandlerCatches == TRUE

\* as Install, but entries of the old cache the pass did not find are kept
InstallMerging(l) ==
    /\ cached_datasets' =
          l.all_datasets \o SelectSeq(cached_datasets,
                                     LAMBDA e : ~HasKey(l.all_datasets, e.k))
    /\ cached_services' =
          l.all_services \o SelectSeq(cached_services,
                                     LAMBDA e : ~HasKey(l.all_services, e.k))
    /\ last_refresh' = now

\* as Install, but only the datasets are replaced
InstallDatasetsOnly(l) ==
    /\ cached_datasets' = l.all_datasets
    /\ cached_services' = cached_services
    /\ last_refresh' = now

\* as Install, but an empty working set leaves the cache and last_refresh alone
InstallUnlessEmpty(l) ==
    IF l.all_datasets = <<>>
    THEN UNCHANGED <<cached_datasets, cached_services, last_refresh>>
    ELSE /\ cached_datasets' = l.all_datasets
         /\ cached_services' = l.all_services
         /\ last_refresh' = now

\* lines 640-642: the working sets replace the cache
Install(l) ==
    /\ cached_datasets' = l.all_datasets
    /\ cached_services' = l.all_services
    /\ last_refresh' = now

\* the call returns (or raises) and its caller finishes in the same step
Return(t, l, outcome) ==
    /\ pass' = [pass EXCEPT ![t] = IdleLocal]
    /\ last_pass' = [l EXCEPT !.pc = "idle", !.cur = NoItem, !.outcome = outcome]
    /\ ret' = IF outcome = "raised"
              THEN [NoResult EXCEPT !.task = t, !.op = l.op, !.raised = TRUE]
              ELSE Result(t, l, cached_datasets', cached_services')

\* task t goes on from local state l: it suspends on the request it issued,
\* installs its working sets, or abandons the pass on an exception
Proceed(t, l) ==
    CASE l.pc = "install" ->
            /\ Install(l)
            /\ generation' = [datasets |-> l.all_datasets, services |-> l.all_services,
                              dropped |-> ~(Keys(cached_datasets) \subseteq
                                            Keys(l.all_datasets)),
                              seq |-> l.seq]
            /\ Return(t, l, "installed")
      [] l.pc = "error" ->
            /\ UNCHANGED <<cached_datasets, cached_services, last_refresh, generation>>
            /\ Return(t, l, IF OuterHandlerCatches THEN "abandoned" ELSE "raised")
      [] OTHER ->
            /\ pass' = [pass EXCEPT ![t] = l]
            /\ UNCHANGED <<cached_datasets, cached_services, last_refresh,
                           last_pass, ret, generation>>

\* _refresh_datasets(force) up to its first await
StartRefresh(t, l, known) ==
    IF Fresh(l.force, last_refresh, now)
    THEN /\ UNCHANGED <<cached_datasets, cached_services, last_refresh, generation>>
         /\ Return(t, l, "gated")
    ELSE Proceed(t, KnownNext([l EXCEPT !.it_pos = 1, !.it_used = Len(known),
                                        !.seq = calls + 1], known))

(* ------------------------------ actions ------------------------------- *)

\* a request is taken by the first task that is free
Ready(t) ==
    /\ pass[t].pc = "idle"
    /\ \A u \in Tasks : u < t => pass[u].pc # "idle"
    /\ calls < MaxCalls

\* the remote gives answer i of those it can give; the regular answer is the last
Answer(answers, i) ==
    /\ i < Len(answers) => faults < MaxFaults
    /\ faults' = IF i < Len(answers) THEN faults + 1 ELSE faults

\* the tool refresh_datasets: _refresh_datasets(force=True)
CallRefresh(t) ==
    /\ Ready(t)
    /\ calls' = calls + 1
    /\ StartRefresh(t, [IdleLocal EXCEPT !.op = "refresh_datasets", !.force = TRUE],
                    known_services)
    /\ UNCHANGED <<known_services, now, faults, server_instance>>

\* handle_list_resources: _refresh_datasets(), then the cache is read
CallListResources(t) ==
    /\ Ready(t)
    /\ calls' = calls + 1
    /\ StartRefresh(t, [IdleLocal EXCEPT !.op = "list_resources"], known_services)
    /\ UNCHANGED <<known_services, now, faults, server_instance>>

\* _add_known_service(name, url): the insertion, then _refresh_datasets(force=True)
CallAddKnownService(t) ==
    /\ Ready(t)
    /\ calls' = calls + 1
    /\ \E name \in AddNames, url \in AddUrls :
          LET known == DictSet(known_services, name, url)
          IN /\ known_services' = known
             /\ StartRefresh(t, [IdleLocal EXCEPT !.op = "add_known_service",
                                                  !.force = TRUE,
                                                  !.name = name, !.url = url],
                             known)
    /\ UNCHANGED <<now, faults, server_instance>>

KnownResponse(t) ==
    /\ pass[t].pc = "known_wait"
    /\ \E i \in DOMAIN ServiceResponses(pass[t].cur.url) :
          /\ Answer(ServiceResponses(pass[t].cur.url), i)
          /\ Proceed(t, AfterKnown(pass[t], ServiceResponses(pass[t].cur.url)[i],
                                known_services))
    /\ UNCHANGED <<known_services, now, calls, server_instance>>

RootResponse(t) ==
    /\ pass[t].pc = "root_wait"
    /\ \E i \in DOMAIN RootResponses :
          /\ Answer(RootResponses, i)
          /\ Proceed(t, AfterRoot(pass[t], RootResponses[i], known_services))
    /\ UNCHANGED <<known_services, now, calls, server_instance>>

RootServiceResponse(t) ==
    /\ pass[t].pc = "rootsvc_wait"
    /\ \E i \in DOMAIN ServiceResponses(pass[t].cur.url) :
          /\ Answer(ServiceResponses(pass[t].cur.url), i)
          /\ Proceed(t, AfterRootSvc(pass[t], ServiceResponses(pass[t].cur.url)[i],
                                  known_services))
    /\ UNCHANGED <<known_services, now, calls, server_instance>>

FolderResponse(t) ==
    /\ pass[t].pc = "folder_wait"
    /\ \E i \in DOMAIN FolderResponses :
          /\ Answer(FolderResponses, i)
          /\ Proceed(t, AfterFolder(pass[t], FolderResponses[i]))
    /\ UNCHANGED <<known_services, now, calls, server_instance>>

FolderServiceResponse(t) ==
    /\ pass[t].pc = "foldersvc_wait"
    /\ \E i \in DOMAIN ServiceResponses(pass[t].cur.url) :
          /\ Answer(ServiceResponses(pass[t].cur.url), i)
          /\ Proceed(t, AfterFolderSvc(pass[t], ServiceResponses(pass[t].cur.url)[i]))
    /\ UNCHANGED <<known_services, now, calls, server_instance>>

\* time passes
Tick ==
    /\ now < ClockStart + MaxTicks * ClockStep
    /\ now' = now + ClockStep
    /\ UNCHANGED <<known_services, cached_datasets, cached_services, last_refresh,
                   pass, last_pass, ret, generation, calls, faults, server_instance>>

Next ==
    \/ \E t \in Tasks : CallRefresh(t)
    \/ \E t \in Tasks : CallListResources(t)
    \/ \E t \in Tasks : CallAddKnownService(t)
    \/ \E t \in Tasks : KnownResponse(t)
    \/ \E t \in Tasks : RootResponse(t)
    \/ \E t \in Tasks : RootServiceResponse(t)
    \/ \E t \in Tasks : FolderResponse(t)
    \/ \E t \in Tasks : FolderServiceResponse(t)
    \/ Tick

Spec == Init /\ [][Next]_vars

\* task t handles the answer to the request it waits for
Respond(t) ==
    \/ KnownResponse(t)
    \/ RootResponse(t)
    \/ RootServiceResponse(t)
    \/ FolderResponse(t)
    \/ FolderServiceResponse(t)

\* forced passes only: the tools refresh_datasets and add_known_service
WalkNext ==
    \/ \E t \in Tasks : CallRefresh(t)
    \/ \E t \in Tasks : CallAddKnownService(t)
    \/ \E t \in Tasks : Respond(t)

\* every HTTP request is answered or fails (httpx timeouts of 60 s and 10 s):
\* weak fairness of Respond(t), whose enabling condition is Waiting(pass[t])
Waiting(l) ==
    l.pc \in {"known_wait", "root_wait", "rootsvc_wait", "folder_wait", "foldersvc_wait"}

Answered(t) == []<>(~Waiting(pass[t])) \/ []<><<Respond(t)>>_vars

FairSpec == Init /\ [][WalkNext]_vars /\ \A t \in Tasks : Answered(t)

(* ------------------- the data operations of the server ---------------- *)

DataOps ==
    {"query_feature_layer", "get_layer_statistics", "get_layer_fields",
     "spatial_query_by_coordinates"}

\* the service_url argument, with and without a trailing slash
DataUrls == { LeasesUrl, LeasesUrl \o <<"/">> }

\* as WithSlash, but the separator is appended to every service_url
WithSlashAlways(url) == url \o <<"/">>

\* "if not service_url.endswith('/'): service_url += '/'"
WithSlash(url) == IF url # <<>> /\ url[Len(url)] = "/" THEN url ELSE url \o <<"/">>

\* the URL a data operation requests
query_url(op, service_url, layer_id) ==
    WithSlash(service_url) \o layer_id
        \o (IF op = "get_layer_fields" THEN <<>> ELSE <<"/query">>)

\* the bounding boxes and the buffer_distance arguments a spatial query is called
\* with; an argument that is not given arrives as None (line 451)
Envelopes ==
    { [xmin |-> 30, ymin |-> 0 - 30, xmax |-> 31, ymax |-> 0 - 29],
      [xmin |-> 0, ymin |-> 0, xmax |-> 0, ymax |-> 0] }
BufferDistances ==
    { [given |-> FALSE, value |-> 0], [given |-> TRUE, value |-> 0],
      [given |-> TRUE, value |-> 500] }

\* json.dumps: the text of a value
JsonDumps(o) == [dumped |-> o]

\* Python truth value of the buffer_distance argument ("if buffer_distance:")
BufferTruthy(b) == b.given /\ b.value # 0

\* lines 862-864
BufferParams(b) ==
    IF BufferTruthy(b)
    THEN << [k |-> "distance", v |-> b.value],
            [k |-> "units", v |-> <<"esriSRUnit_Meter">>] >>
    ELSE <<>>

\* the params of _spatial_query_by_coordinates: lines 842-864
spatial_params(a) ==
    << [k |-> "geometry",
        v |-> JsonDumps(<< [k |-> "xmin", v |-> a.envelope.xmin],
                           [k |-> "ymin", v |-> a.envelope.ymin],
                           [k |-> "xmax", v |-> a.envelope.xmax],
                           [k |-> "ymax", v |-> a.envelope.ymax],
                           [k |-> "spatialReference",
                            v |-> << [k |-> "wkid", v |-> 4326] >>] >>)],
       [k |-> "geometryType", v |-> <<"esriGeometryEnvelope">>],
       [k |-> "spatialRel", v |-> <<"esriSpatialRelIntersects">>],
       [k |-> "where", v |-> <<"1=1">>],
       [k |-> "outFields", v |-> <<"*">>],
       [k |-> "returnGeometry", v |-> <<"true">>],
       [k |-> "f", v |-> <<"json">>],
       [k |-> "resultRecordCount", v |-> 100] >>
    \o BufferParams(a.buffer_distance)

\* the params of the request of a data operation called with the default values of
\* its optional arguments: lines 712-723, 745-749, 803, 842-864
request_params(op, a) ==
    CASE op = "query_feature_layer" ->
            << [k |-> "where", v |-> <<"1=1">>],
               [k |-> "outFields", v |-> <<"*">>],
               [k |-> "returnGeometry", v |-> <<"true">>],
               [k |-> "f", v |-> <<"json">>],
               [k |-> "resultRecordCount", v |-> 100],
               [k |-> "spatialRel", v |-> <<"esriSpatialRelIntersects">>] >>
      [] op = "get_layer_statistics" ->
            << [k |-> "where", v |-> <<"1=1">>],
               [k |-> "outStatistics",
                v |-> JsonDumps(<< << [k |-> "statisticType", v |-> <<"count">>],
                                      [k |-> "onStatisticField", v |-> <<"OBJECTID">>],
                                      [k |-> "outStatisticFieldName",
                                       v |-> <<"count", "_", "OBJECTID">>] >> >>)],
               [k |-> "f", v |-> <<"json">>] >>
      [] op = "get_layer_fields" -> << [k |-> "f", v |-> <<"json">>] >>
      [] OTHER -> spatial_params(a)

\* the arguments a data operation is called with besides service_url and layer_id
OperationArgs(op) ==
    IF op = "spatial_query_by_coordinates"
    THEN [envelope : Envelopes, buffer_distance : BufferDistances]
    ELSE { [envelope |-> <<>>, buffer_distance |-> <<>>] }

LayerBody ==
    << [k |-> "name", v |-> <<"Lease areas">>],
       [k |-> "geometryType", v |-> <<"esriGeometryPolygon">>],
       [k |-> "fields",
        v |-> << << [k |-> "name", v |-> <<"OBJECTID">>],
                    [k |-> "type", v |-> <<"esriFieldTypeOID">>] >> >>],
       [k |-> "features", v |-> <<>>] >>

\* what a GET of a data operation can answer
DataResponses ==
    << Threw, Status(404, JNone), Status(500, JNone), Status(304, JNone),
       Status(200, Malformed), Status(200, JList), Status(200, JDict(LayerBody)) >>

\* httpx.Response.is_success
IsSuccess(code) == code \in 200..299

\* lines 811-826
fields_info(data) ==
    [layer_name |-> Get(data, "name", <<>>),
     layer_description |-> Get(data, "description", <<>>),
     geometry_type |-> Get(data, "geometryType", <<>>),
     fields |-> [i \in DOMAIN Get(data, "fields", <<>>) |->
                   LET field == Get(data, "fields", <<>>)[i]
                   IN [name |-> Get(field, "name", <<>>),
                       type |-> Get(field, "type", <<>>),
                       alias |-> Get(field, "alias", <<>>)]]]

\* how the request of a data operation ended
DataEnded(r) ==
    IF r.throws THEN "threw"
    ELSE IF ~IsSuccess(r.status) THEN "status"
    ELSE IF r.body.t = "malformed" THEN "malformed" ELSE "ok"

Raises(kind) == [raised |-> TRUE, error |-> kind, out |-> <<>>]

\* as DataOutcome, but a failed request yields None as in _get_service_info
DataOutcomeSwallowing(op, r) ==
    IF DataEnded(r) # "ok" THEN [raised |-> FALSE, error |-> "none", out |-> JNone]
    ELSE IF op = "get_layer_fields"
         THEN (IF r.body.t = "dict"
               THEN [raised |-> FALSE, error |-> "none", out |-> fields_info(r.body.o)]
               ELSE Raises("AttributeError"))
         ELSE [raised |-> FALSE, error |-> "none", out |-> r.body]

\* what a data operation hands its caller: client.get raising, raise_for_status,
\* response.json(), and for get_layer_fields the extraction of the fields
DataOutcome(op, r) ==
    IF r.throws THEN Raises("RequestError")
    ELSE IF ~IsSuccess(r.status) THEN Raises("HTTPStatusError")
    ELSE IF r.body.t = "malformed" THEN Raises("JSONDecodeError")
    ELSE IF op = "get_layer_fields"
         THEN (IF r.body.t = "dict"
               THEN [raised |-> FALSE, error |-> "none", out |-> fields_info(r.body.o)]
               ELSE Raises("AttributeError"))
         ELSE [raised |-> FALSE, error |-> "none", out |-> r.body]

\* a request arrives while no other is being served
Quiet(t) ==
    /\ \A u \in Tasks : pass[u].pc = "idle" /\ t <= u
    /\ calls < MaxReads

\* the tool search_datasets: _refresh_datasets(), then the search of the cache
CallSearchDatasets(t) ==
    /\ Quiet(t)
    /\ calls' = calls + 1
    /\ \E query \in Queries, category \in Categories, limit \in Limits :
          StartRefresh(t, [IdleLocal EXCEPT
                              !.op = "search_datasets",
                              !.args = [query |-> query, category |-> category,
                                        limit |-> limit]],
                       known_services)
    /\ UNCHANGED <<known_services, now, faults, server_instance>>

\* the tool get_dataset_info: _refresh_datasets(), then the lookup
CallGetDatasetInfo(t) ==
    /\ Quiet(t)
    /\ calls' = calls + 1
    /\ \E dataset_id \in LookupIds :
          StartRefresh(t, [IdleLocal EXCEPT !.op = "get_dataset_info",
                                           !.args = [dataset_id |-> dataset_id]],
                       known_services)
    /\ UNCHANGED <<known_services, now, faults, server_instance>>

\* handle_read_resource: the URI is parsed (lines 96-101), a URI of another scheme
\* is refused before the refresh, else _refresh_datasets() and then the lookup
CallReadResource(t) ==
    /\ Quiet(t)
    /\ calls' = calls + 1
    /\ \E uri \in ReadUris :
          LET l == [IdleLocal EXCEPT !.op = "read_resource", !.args = [uri |-> uri]]
          IN IF ParseUri(uri).scheme_ok
             THEN StartRefresh(t, l, known_services)
             ELSE /\ UNCHANGED <<cached_datasets, cached_services, last_refresh,
                                 generation>>
                  /\ Return(t, l, "none")
    /\ UNCHANGED <<known_services, now, faults, server_instance>>

\* a data operation up to its request
CallDataOperation(t) ==
    /\ Quiet(t)
    /\ calls' = calls + 1
    /\ \E op \in DataOps, service_url \in DataUrls :
        \E a \in OperationArgs(op) :
          pass' = [pass EXCEPT ![t] =
                     Request([IdleLocal EXCEPT
                                 !.op = op, !.url = service_url,
                                 !.args = [service_url |-> service_url,
                                           layer_id |-> <<"0">>,
                                           envelope |-> a.envelope,
                                           buffer_distance |-> a.buffer_distance],
                                 !.params = request_params(op, a)],
                             "data_wait",
                             [NoItem EXCEPT
                                 !.url = query_url(op, service_url, <<"0">>)])]
    /\ UNCHANGED <<known_services, cached_datasets, cached_services, last_refresh, now,
                   last_pass, ret, generation, faults, server_instance>>

\* a data operation from the answer to its request on
DataResponse(t) ==
    /\ pass[t].pc = "data_wait"
    /\ \E i \in DOMAIN DataResponses :
          LET r == DataResponses[i]
              o == DataOutcome(pass[t].op, r)
              l == [pass[t] EXCEPT !.res = Append(@, DataEnded(r))]
          IN /\ Answer(DataResponses, i)
             /\ pass' = [pass EXCEPT ![t] = IdleLocal]
             /\ last_pass' = [l EXCEPT !.pc = "idle", !.cur = NoItem,
                                       !.outcome = IF o.raised THEN "raised"
                                                   ELSE "returned"]
             /\ ret' = Dispatched([NoResult EXCEPT
                          !.task = t, !.op = l.op, !.url = l.url, !.args = l.args,
                          !.raised = o.raised, !.error = o.error, !.out = o.out,
                          !.n_requests = Len(l.reqs)])
    /\ UNCHANGED <<known_services, cached_datasets, cached_services, last_refresh, now,
                   generation, calls, server_instance>>

\* a call the dispatcher cannot serve: the exception is raised before any await
CallRejected(t) ==
    /\ Quiet(t)
    /\ calls' = calls + 1
    /\ \E c \in RejectedCalls :
          /\ last_pass' = [IdleLocal EXCEPT !.op = c.name, !.outcome = "raised"]
          /\ ret' = Dispatched([NoResult EXCEPT !.task = t, !.op = c.name,
                                                !.raised = TRUE, !.error = c.error])
    /\ UNCHANGED <<known_services, cached_datasets, cached_services, last_refresh, now,
                   pass, generation, faults, server_instance>>

ReadNext ==
    \/ \E t \in Tasks : CallRejected(t)
    \/ \E t \in Tasks : CallReadResource(t)
    \/ \E t \in Tasks : CallSearchDatasets(t)
    \/ \E t \in Tasks : CallGetDatasetInfo(t)
    \/ \E t \in Tasks : CallDataOperation(t)
    \/ \E t \in Tasks : DataResponse(t)
    \/ \E t \in Tasks : KnownResponse(t)
    \/ \E t \in Tasks : RootResponse(t)
    \/ \E t \in Tasks : RootServiceResponse(t)
    \/ \E t \in Tasks : FolderResponse(t)
    \/ \E t \in Tasks : FolderServiceResponse(t)

\* the server answering one request after the other
ReadSpec == Init /\ [][ReadNext]_vars

(* -------------------- the HTTP routes of function_app ------------------ *)

\* get_server_instance on the first request of the process: the server is created
\* (line 35) and "await _server_instance._refresh_datasets()" runs (line 38)
Prewarm(t, l, known) == StartRefresh(t, l, known)

\* POST datasets/{dataset_id}/spatial: line 180 awaits get_server_instance before
\* the route parameter and the body are looked at (lines 181-197)
CallSpatialQuery(t) ==
    /\ Ready(t)
    /\ calls' = calls + 1
    /\ server_instance' = IF server_instance = 0 THEN 1 ELSE server_instance
    /\ \E id \in RouteIds, body \in Bodies :
          LET l == [IdleLocal EXCEPT !.op = "spatial_query",
                                     !.args = [dataset_id |-> id, body |-> body]]
          IN IF server_instance # 0
             THEN /\ UNCHANGED <<cached_datasets, cached_services, last_refresh,
                                 generation>>
                  /\ Return(t, l, "none")
             ELSE Prewarm(t, l, known_services)
    /\ UNCHANGED <<known_services, now, faults>>

FnNext ==
    \/ \E t \in Tasks : CallSpatialQuery(t)
    \/ \E t \in Tasks : KnownResponse(t)
    \/ \E t \in Tasks : RootResponse(t)
    \/ \E t \in Tasks : RootServiceResponse(t)
    \/ \E t \in Tasks : FolderResponse(t)
    \/ \E t \in Tasks : FolderServiceResponse(t)

\* the function-app process answering spatial queries
FnSpec == Init /\ [][FnNext]_vars

(* ------------------------------ properties ---------------------------- *)

\* task t suspends on its first request in this step
Started(t) == pass[t].pc = "idle" /\ pass'[t].pc # "idle"

\* a request arrives in this step and calls _refresh_datasets(force=False)
NonForcedCall ==
    /\ calls' = calls + 1
    /\ \/ \E t \in Tasks : Started(t) /\ ~pass'[t].force
       \/ (\A t \in Tasks : ~Started(t)) /\ ~last_pass'.force

\* a request finishes in this step
Returned ==
    \/ \E t \in Tasks : pass[t].pc # "idle" /\ pass'[t].pc = "idle"
    \/ calls' # calls /\ pass' = pass

IsCatalogUrl(l, u) ==
    u = RootCatalogUrl \/ \E k \in DOMAIN l.folders : u = FolderCatalogUrl(l.folders[k])

Requested(l, u) == \E j \in DOMAIN l.reqs : l.reqs[j] = u

\* every service that answered with a descriptor in pass l is in services, and
\* datasets holds a record under its id (that of a service found later in the walk,
\* if two services share the id)
FoundAreCached(l, datasets, services) ==
    \A j \in DOMAIN l.res :
        (l.res[j] = "ok" /\ ~IsCatalogUrl(l, l.reqs[j]))
            => \E i \in DOMAIN services :
                  /\ services[i].v.url = l.reqs[j]
                  /\ HasKey(datasets, services[i].v.dataset_id)

\* C1: a call of _refresh_datasets(force=False) made while last_refresh is set and
\* less than 900 seconds old sends no request and leaves cached_datasets,
\* cached_services and last_refresh as they were.
C1_StalenessGate ==
    [][(NonForcedCall /\ last_refresh # None /\ (now - last_refresh) < StaleAfter)
         => /\ \A t \in Tasks : ~Started(t)
            /\ last_pass'.outcome = "gated"
            /\ last_pass'.reqs = <<>>
            /\ UNCHANGED <<cached_datasets, cached_services, last_refresh>>]_vars

C1_Witness ==
    /\ last_pass.outcome = "gated"
    /\ ret.op = "list_resources"
    /\ ret.resources # <<>>
    /\ cached_datasets # <<>>

\* C2: every call of _refresh_datasets(force=True) that has ended has probed each
\* known service and then the root catalog, whatever last_refresh was.
C2_ForcedFullProbe ==
    (last_pass.force /\ last_pass.outcome # "none")
        => /\ last_pass.it_pos = last_pass.it_used + 1
           /\ Requested(last_pass, RootCatalogUrl)

\* C3: once a pass has installed its result, the cache is exactly the working sets
\* of that pass, and every cached entry is one whose probe succeeded in that pass.
C3_CacheIsWorkingSet ==
    last_pass.outcome = "installed"
        => /\ cached_datasets = last_pass.all_datasets
           /\ cached_services = last_pass.all_services
           /\ \A i \in DOMAIN cached_datasets :
                 \E j \in DOMAIN last_pass.reqs :
                    /\ last_pass.reqs[j] = cached_datasets[i].v.url
                    /\ last_pass.res[j] = "ok"
           /\ \A i \in DOMAIN cached_services :
                 \E j \in DOMAIN last_pass.reqs :
                    /\ last_pass.reqs[j] = cached_services[i].v.url
                    /\ last_pass.res[j] = "ok"

C3_Witness ==
    /\ last_pass.outcome = "installed"
    /\ generation.dropped
    /\ cached_datasets # <<>>

\* C4: what a reader observes when its request finishes is the datasets and the
\* services of one and the same installed pass (or the empty initial cache), also
\* while another pass is half-way through its walk.
C4_ReadersSeeOneGeneration ==
    [][(Returned /\ ret'.op = "list_resources")
         => /\ cached_datasets' = generation'.datasets
            /\ cached_services' = generation'.services
            /\ ret'.resources = ListResources(generation'.datasets,
                                              generation'.services)]_vars

C4_Witness ==
    /\ ret.op = "list_resources"
    /\ ret.task = 2
    /\ ret.resources # <<>>
    /\ pass[1].pc # "idle"
    /\ pass[1].all_datasets # <<>>
    /\ pass[1].all_datasets # cached_datasets

\* C5: in a pass that installs its result, a known service whose probe failed does
\* not stop the walk: every known service is probed, then the root catalog, every
\* listed folder and every root service of an accepted type that is not a known
\* service, and every service that answered is cached.
C5_KnownFailureIsLocal ==
    last_pass.outcome = "installed"
        => /\ last_pass.it_pos = last_pass.it_used + 1
           /\ Len(last_pass.reqs) > last_pass.it_used
           /\ last_pass.reqs[last_pass.it_used + 1] = RootCatalogUrl
           /\ \A k \in DOMAIN last_pass.folders :
                 Requested(last_pass, FolderCatalogUrl(last_pass.folders[k]))
           /\ \A k \in DOMAIN last_pass.services :
                 LET name == Get(last_pass.services[k], "name", <<>>)
                     type == Get(last_pass.services[k], "type", <<>>)
                 IN type \in AcceptedTypes
                       => \/ Requested(last_pass, ServiceUrl(name, type))
                          \/ HasKey(known_services, name)
           /\ FoundAreCached(last_pass, cached_datasets, cached_services)

C5_Witness ==
    /\ last_pass.outcome = "installed"
    /\ last_pass.it_used = 2
    /\ last_pass.res[1] = "fail"
    /\ last_pass.res[2] = "ok"
    /\ HasKey(cached_datasets, <<"parks">>)
    /\ HasKey(cached_datasets, <<"roads">>)
    /\ HasKey(cached_datasets, <<"util", "_", "water">>)

\* the root catalog request of task t raises in this step
RootThrew(t) ==
    /\ pass[t].pc = "root_wait"
    /\ pass'[t].pc = "idle"
    /\ last_pass'.reqs = pass[t].reqs
    /\ Len(last_pass'.res) = Len(pass[t].reqs)
    /\ last_pass'.res[Len(last_pass'.res)] = "threw"

\* C6 as stated: when the root catalog probe raises, the cache and last_refresh
\* stay as they were.
C6_PriorCacheRetained ==
    [][\A t \in Tasks :
          RootThrew(t) => UNCHANGED <<cached_datasets, cached_services, last_refresh>>]_vars

\* C6 as amended: when the root catalog probe raises, no root service and no folder
\* is probed, and the pass ends at once by installing the working sets built from
\* the known services and setting last_refresh.
C6_RootFailureInstallsKnown ==
    [][\A t \in Tasks :
          RootThrew(t) => /\ last_pass'.outcome = "installed"
                          /\ cached_datasets' = pass[t].all_datasets
                          /\ cached_services' = pass[t].all_services
                          /\ last_refresh' = now]_vars

C6_Witness ==
    /\ last_pass.outcome = "installed"
    /\ last_pass.res # <<>>
    /\ last_pass.res[Len(last_pass.res)] = "threw"
    /\ last_pass.reqs[Len(last_pass.reqs)] = RootCatalogUrl
    /\ generation.dropped
    /\ cached_datasets = last_pass.all_datasets

\* C7: no call of _refresh_datasets raises to its caller, and a pass in which every
\* probe failed installs empty maps.
C7_NeverRaises ==
    /\ ~ret.raised
    /\ last_pass.outcome # "raised"
    /\ (last_pass.outcome = "installed"
          /\ \A j \in DOMAIN last_pass.res : last_pass.res[j] # "ok")
         => cached_datasets = <<>> /\ cached_services = <<>>

C7_Witness ==
    /\ last_pass.outcome = "installed"
    /\ Len(last_pass.res) >= 2
    /\ \A j \in DOMAIN last_pass.res : last_pass.res[j] # "ok"
    /\ cached_datasets = <<>>
    /\ ~ret.raised

\* C8: in a pass that installs its result, every folder the root catalog lists is
\* enumerated, whether or not an earlier folder or a service in it failed, and
\* every folder service that answered is cached.
C8_FolderFailureIsLocal ==
    last_pass.outcome = "installed"
        => /\ \A k \in DOMAIN last_pass.folders :
                 Requested(last_pass, FolderCatalogUrl(last_pass.folders[k]))
           /\ last_pass.fi = Len(last_pass.folders) + 1
           /\ FoundAreCached(last_pass, cached_datasets, cached_services)

C8_Witness ==
    /\ last_pass.outcome = "installed"
    /\ \E j \in DOMAIN last_pass.reqs :
          /\ last_pass.reqs[j] = FolderCatalogUrl(<<"Util">>)
          /\ last_pass.res[j] # "ok"
    /\ HasKey(cached_datasets, <<"env", "_", "water">>)

KeysAreIds(d) ==
    /\ \A i, j \in DOMAIN d : i # j => d[i].k # d[j].k
    /\ \A i \in DOMAIN d : d[i].k = d[i].v.id

\* C9: the keys of cached_datasets (and of every working set) are pairwise distinct
\* and each key is the id of the record stored under it.
C9_KeysAreIds ==
    /\ KeysAreIds(cached_datasets)
    /\ \A t \in Tasks : KeysAreIds(pass[t].all_datasets)

C9_Witness ==
    /\ Len(cached_datasets) >= 4
    /\ HasKey(cached_datasets, <<"leases">>)
    /\ HasKey(cached_datasets, <<"env", "_", "water">>)

\* C10: when _add_known_service(name, url) has returned, known_services maps name
\* to url, the forced pass it started has installed its result, and the count it
\* reports is the size of the dataset map of that pass.
C10_AddReturnsAfterFullPass ==
    ret.op = "add_known_service"
        => /\ HasKey(known_services, ret.name)
           /\ DictGet(known_services, ret.name) = ret.url
           /\ last_pass.outcome = "installed"
           /\ ret.n_datasets = Len(last_pass.all_datasets)

\* the locals of task t after the step it takes
After(t) == IF pass'[t].pc = "idle" THEN last_pass' ELSE pass'[t]

\* whether the root loop probes a listed service (line 551)
Qualifies(service, known) ==
    /\ Get(service, "type", <<>>) \in AcceptedTypes
    /\ ~HasKey(known, Get(service, "name", <<>>))

\* the step of task t in the root-catalog part of the walk: the services it passes
\* over do not qualify, the one it stops at does and is the one requested, and a
\* record is inserted exactly when the probe it waited for succeeded
RootStepFilters(t) ==
    LET l == pass[t]
        a == After(t)
        from == IF l.pc = "root_wait" THEN 1 ELSE l.si
        stops == a.pc = "rootsvc_wait"
    IN /\ \A k \in from..(a.si - 1) :
             (stops /\ k = a.si - 1)
                 <=> Qualifies(a.services[k], known_services)
       /\ stops => LET service == a.services[a.si - 1]
                   IN /\ a.cur.name = Get(service, "name", <<>>)
                      /\ a.cur.type = Get(service, "type", <<>>)
                      /\ a.reqs[Len(a.reqs)] = ServiceUrl(a.cur.name, a.cur.type)
       /\ ~stops => a.si = Len(a.services) + 1
       /\ IF l.pc = "rootsvc_wait" /\ a.res[Len(l.res) + 1] = "ok"
          THEN /\ HasKey(a.all_datasets, Lower(l.cur.name))
               /\ DictGet(a.all_datasets, Lower(l.cur.name)).url = l.cur.url
               /\ DictGet(a.all_datasets, Lower(l.cur.name)).type = l.cur.type
          ELSE a.all_datasets = l.all_datasets

\* no cached record has a type the root loop does not accept
CachedTypesAccepted ==
    \A i \in DOMAIN cached_datasets :
        cached_datasets[i].v.type \in AcceptedTypes \cup { <<"Feature Service">> }

\* C11: in the root-catalog step a listed service is probed, and inserted if the
\* probe succeeds, exactly when its type is FeatureServer or MapServer and its name
\* is no key of known_services; a service of another type is never cached.
C11_RootFilter ==
    [][/\ \A t \in Tasks :
             (pass[t].pc \in {"root_wait", "rootsvc_wait"} /\ pass'[t] # pass[t])
                 => RootStepFilters(t)
       /\ CachedTypesAccepted'
       /\ ~HasKey(cached_datasets', <<"geocode">>)]_vars

C11_Witness ==
    /\ last_pass.outcome = "installed"
    /\ Requested(last_pass, RootCatalogUrl)
    /\ HasKey(cached_datasets, <<"roads">>)
    /\ DictGet(cached_datasets, <<"roads">>).type = <<"MapServer">>
    /\ Cardinality({j \in DOMAIN last_pass.reqs : last_pass.reqs[j] = LeasesUrl}) = 1
    /\ ~Requested(last_pass, ServiceUrl(<<"Geocode">>, <<"GPServer">>))
    /\ Len(last_pass.services) = 3

\* the text of record d the query is looked for in, lower-cased
LoweredText(d) ==
    Lower(d.name \o <<" ">> \o d.title \o <<" ">> \o d.description \o <<" ">>
          \o Join(d.tags, <<" ">>))

\* record d satisfies the text predicate and the category predicate
Satisfies(d, query, category) ==
    /\ \E i \in 1..(Len(LoweredText(d)) + 1), j \in 0..Len(LoweredText(d)) :
          SubSeq(LoweredText(d), i, j) = Lower(query)
    /\ category # <<>> => Lower(category) \in { Lower(d.categories[i]) :
                                                   i \in DOMAIN d.categories }

\* C12: _search_datasets returns at most 'limit' entries, and every entry it
\* returns contains the query case-insensitively in its name, title, description
\* and tags and, when a category is given, has that category case-insensitively.
C12_SearchBounded ==
    ret.op = "search_datasets"
        => /\ Len(ret.out) <= ret.args.limit
           /\ \A i \in DOMAIN ret.out :
                 Satisfies(ret.out[i], ret.args.query, ret.args.category)

\* the first n records of the cache d that satisfy the predicates, in cache order
FirstMatching(d, n, query, category) ==
    LET hits == SelectSeq(d, LAMBDA e : Satisfies(e.v, query, category))
        m == IF n < Len(hits) THEN n ELSE Len(hits)
    IN [i \in 1..m |-> hits[i].v]

\* C13: _search_datasets returns the first 'limit' matching entries in cache
\* iteration order; with an empty query and no category these are the first
\* 'limit' entries of the cache (all of them when the cache holds fewer).
C13_SearchIsPrefix ==
    [][(Returned /\ ret'.op = "search_datasets")
         => /\ ret'.out = FirstMatching(cached_datasets', ret'.args.limit,
                                        ret'.args.query, ret'.args.category)
            /\ (ret'.args.query = <<>> /\ ret'.args.category = <<>>)
                  => ret'.out = [i \in 1..(IF ret'.args.limit < Len(cached_datasets')
                                           THEN ret'.args.limit
                                           ELSE Len(cached_datasets')) |->
                                    cached_datasets'[i].v]]_vars

\* x is neither a key of d nor, ignoring case, the name or title of a record of d
Unknown(d, x) ==
    /\ ~HasKey(d, x)
    /\ \A i \in DOMAIN d : Lower(d[i].v.name) # Lower(x) /\ Lower(d[i].v.title) # Lower(x)

\* C14: _get_dataset_info(x) returns the record stored under x when x is a key of
\* the cache, and raises 'Dataset not found', returning no record, when x is
\* neither a key nor the name or title of a cached record; no other operation
\* fails with that error.
C14_LookupOrNotFound ==
    [][Returned =>
         /\ ret'.op = "get_dataset_info" =>
               /\ HasKey(cached_datasets', ret'.args.dataset_id)
                     => /\ ~ret'.raised
                        /\ ret'.out = DictGet(cached_datasets', ret'.args.dataset_id)
               /\ Unknown(cached_datasets', ret'.args.dataset_id)
                     => /\ ret'.raised
                        /\ ret'.error = "ValueError: Dataset not found"
                        /\ ret'.out = <<>>
         /\ ret'.op \in DataOps => ret'.error # "ValueError: Dataset not found"]_vars

C14_Witness ==
    /\ ret.op = "get_dataset_info"
    /\ ret.args.dataset_id = <<"geocode">>
    /\ ret.raised
    /\ Len(cached_datasets) >= 2

\* C15: a data operation whose request fails (network error or non-2xx answer)
\* raises to its caller and leaves the cache as it was; the same failure of a
\* probe of _get_service_info raises nothing: the walk goes on without a record.
C15_FailurePropagation ==
    [][\A t \in Tasks :
          /\ (pass[t].pc = "data_wait" /\ pass'[t] # pass[t]
                /\ last_pass'.res[Len(last_pass'.res)] \in {"threw", "status"})
                => /\ ret'.raised
                   /\ ret'.error \in {"RequestError", "HTTPStatusError"}
                   /\ UNCHANGED <<known_services, cached_datasets, cached_services,
                                  last_refresh>>
          /\ (pass[t].pc \in {"known_wait", "rootsvc_wait", "foldersvc_wait"}
                /\ pass'[t] # pass[t]
                /\ After(t).res[Len(pass[t].res) + 1] = "fail")
                => /\ After(t).pc # "error"
                   /\ After(t).outcome \in {"none", "installed"}
                   /\ After(t).all_datasets = pass[t].all_datasets]_vars

C15_Witness ==
    /\ ret.op = "spatial_query_by_coordinates"
    /\ ret.raised
    /\ ret.error = "HTTPStatusError"
    /\ last_pass.res = <<"status">>
    /\ cached_datasets = <<>>

\* where the walk of a pass stands: the part of the walk, then the loop indices
Position(l) ==
    << CASE l.pc = "known_wait" -> 1
         [] l.pc = "root_wait" -> 2
         [] l.pc = "rootsvc_wait" -> 3
         [] OTHER -> 4,
       l.it_pos, l.si, l.fi, l.fsi >>

\* lexicographic order on positions
Before(p, q) ==
    \E k \in DOMAIN p : p[k] < q[k] /\ \A j \in 1..(k - 1) : p[j] = q[j]

\* every answer moves the walk on: the pass ends, or it issues exactly one request,
\* for an item further on in the walk, and never one for the item just answered
NoRetry ==
    \A t \in Tasks :
        (Waiting(pass[t]) /\ pass'[t] # pass[t] /\ pass'[t].pc # "idle")
            => /\ Waiting(pass'[t])
               /\ Before(Position(pass[t]), Position(pass'[t]))
               /\ Len(pass'[t].reqs) = Len(pass[t].reqs) + 1
               /\ Len(pass'[t].res) = Len(pass[t].reqs)

\* C16: given that every request is answered or fails, every discovery pass ends,
\* and within a pass every answer moves the walk on to an item it has not requested
\* yet: no endpoint is requested twice for the same item, no failed probe retried.
C16_PassTerminates ==
    /\ [][NoRetry]_vars
    /\ \A t \in Tasks : (pass[t].pc # "idle") ~> (pass[t].pc = "idle")

C16_Witness ==
    /\ last_pass.outcome = "installed"
    /\ Len(last_pass.reqs) = 7
    /\ \E j \in DOMAIN last_pass.res :
          /\ last_pass.res[j] = "fail"
          /\ Cardinality({k \in DOMAIN last_pass.reqs :
                             last_pass.reqs[k] = last_pass.reqs[j]}) = 1

\* C17: a spatial query with a missing or invalid required argument is answered with
\* status 400 before any network request has been made on behalf of that request,
\* in every state of the server, the first request of the process included.
C17_RejectedBeforeNetwork ==
    (ret.op = "spatial_query" /\ ret.status = 400) => ret.n_requests = 0

\* task t takes the answer to a service probe, and the probe succeeded
Inserts(t) ==
    /\ pass[t].pc \in {"known_wait", "rootsvc_wait", "foldersvc_wait"}
    /\ pass'[t] # pass[t]
    /\ After(t).res[Len(pass[t].res) + 1] = "ok"

InFolder(l) == l.pc = "foldersvc_wait"

\* the name the probed service is recorded with
DiscoveredName(l) ==
    IF InFolder(l) THEN l.cur.folder \o <<"/">> \o l.cur.name ELSE l.cur.name

\* the record the step of task t has stored for the service it probed
Stored(t) ==
    LET hits == {i \in DOMAIN After(t).all_datasets :
                    /\ After(t).all_datasets[i].v.name = DiscoveredName(pass[t])
                    /\ After(t).all_datasets[i].v.url = pass[t].cur.url}
    IN {After(t).all_datasets[i] : i \in hits}

NoSlash(s) == \A i \in DOMAIN s : s[i] # "/"
NoUpperCase(s) == \A i \in DOMAIN s : s[i] \notin DOMAIN LowerMap

\* the id a record carries, from the name it carries
IdOfRecord(d) ==
    IF NoSlash(d.name) THEN d.id = Lower(d.name)
    ELSE /\ d.id = ReplaceSlash(Lower(d.name))
         /\ NoSlash(d.id)
         /\ NoUpperCase(d.id)

\* C18: a dataset found in a folder has as id its folder-qualified name, lower-cased
\* and with "/" replaced by "_", so the id holds no "/" and no upper-case letter;
\* every other dataset has as id its service name, lower-cased.
C18_DatasetIds ==
    [][/\ \A t \in Tasks :
             Inserts(t) =>
                 /\ Stored(t) # {}
                 /\ \A e \in Stored(t) :
                       /\ e.k = e.v.id
                       /\ NoSlash(e.v.name) <=> ~InFolder(pass[t])
                       /\ IdOfRecord(e.v)
       /\ \A i \in DOMAIN cached_datasets' : IdOfRecord(cached_datasets'[i].v)]_vars

C18_Witness ==
    /\ HasKey(cached_datasets, <<"util", "_", "water">>)
    /\ DictGet(cached_datasets, <<"util", "_", "water">>).name = <<"Util", "/", "Water">>
    /\ HasKey(cached_datasets, <<"roads">>)
    /\ DictGet(cached_datasets, <<"roads">>).name = <<"Roads">>
    /\ HasKey(cached_datasets, <<"parks">>)

\* the tags and categories a record carries begin with the fixed markers
Marked(d) ==
    /\ Len(d.tags) >= 3
    /\ SubSeq(d.tags, 1, 3) = << <<"eThekwini">>, <<"municipality">>, <<"GIS">> >>
    /\ Len(d.categories) >= 1
    /\ d.categories[1] = <<"Municipal Services">>

\* C19: the tags of every cached record begin with the three fixed markers and its
\* categories with 'Municipal Services'; the folder name follows as fourth tag and
\* second category exactly when the service was discovered in a folder.
C19_TagsAndCategories ==
    [][/\ \A t \in Tasks :
             Inserts(t) =>
                 \A e \in Stored(t) :
                     /\ Marked(e.v)
                     /\ IF InFolder(pass[t])
                        THEN /\ Len(e.v.tags) = 4
                             /\ e.v.tags[4] = pass[t].cur.folder
                             /\ Len(e.v.categories) = 2
                             /\ e.v.categories[2] = pass[t].cur.folder
                        ELSE Len(e.v.tags) = 3 /\ Len(e.v.categories) = 1
       /\ \A i \in DOMAIN cached_datasets' :
             LET d == cached_datasets'[i].v
             IN /\ Marked(d)
                /\ Len(d.tags) = (IF NoSlash(d.name) THEN 3 ELSE 4)
                /\ Len(d.categories) = (IF NoSlash(d.name) THEN 1 ELSE 2)]_vars

C19_Witness ==
    /\ HasKey(cached_datasets, <<"env", "_", "water">>)
    /\ DictGet(cached_datasets, <<"env", "_", "water">>).tags
          = << <<"eThekwini">>, <<"municipality">>, <<"GIS">>, <<"Env">> >>
    /\ DictGet(cached_datasets, <<"env", "_", "water">>).categories
          = << <<"Municipal Services">>, <<"Env">> >>
    /\ HasKey(cached_datasets, <<"leases">>)
    /\ Len(DictGet(cached_datasets, <<"leases">>).tags) = 3

\* the id the probed service is stored under
IdOf(l) ==
    IF InFolder(l) THEN ReplaceSlash(Lower(DiscoveredName(l))) ELSE Lower(l.cur.name)

\* C20: when a pass discovers a service whose id it has already stored a record
\* under, the working set keeps exactly one record under that id, and it is the
\* record of the service discovered later in the walk.
C20_LaterDiscoveryWins ==
    [][\A t \in Tasks :
          (Inserts(t) /\ HasKey(pass[t].all_datasets, IdOf(pass[t])))
              => LET a == After(t).all_datasets
                     id == IdOf(pass[t])
                 IN /\ Len(a) = Len(pass[t].all_datasets)
                    /\ Cardinality({i \in DOMAIN a : a[i].k = id}) = 1
                    /\ DictGet(a, id).name = DiscoveredName(pass[t])
                    /\ DictGet(a, id).url = pass[t].cur.url
                    /\ DictGet(a, id).type = pass[t].cur.type]_vars

C20_Witness ==
    /\ last_pass.outcome = "installed"
    /\ HasKey(known_services, <<"ROADS">>)
    /\ HasKey(cached_services, <<"ROADS">>)
    /\ HasKey(cached_services, <<"Roads">>)
    /\ DictGet(cached_services, <<"ROADS">>).dataset_id = <<"roads">>
    /\ DictGet(cached_services, <<"Roads">>).dataset_id = <<"roads">>
    /\ Cardinality({i \in DOMAIN cached_datasets :
                       cached_datasets[i].k = <<"roads">>}) = 1
    /\ DictGet(cached_datasets, <<"roads">>).name = <<"Roads">>
    /\ DictGet(cached_datasets, <<"roads">>).type = <<"MapServer">>

\* C21: every entry of cached_services refers through dataset_id to a key of
\* cached_datasets, and carries the url and the type of the record under that key.
C21_ServicesMirrorDatasets ==
    \A i \in DOMAIN cached_services :
        LET e == cached_services[i].v
        IN /\ HasKey(cached_datasets, e.dataset_id)
           /\ DictGet(cached_datasets, e.dataset_id).url = e.url
           /\ DictGet(cached_datasets, e.dataset_id).type = e.type

\* the request a data operation has just sent
Sent(t) == pass[t].pc = "data_wait" /\ pass[t].op = "spatial_query_by_coordinates"

\* C22: every request of _spatial_query_by_coordinates carries an envelope with
\* exactly the four given ordinates and spatial reference 4326, the relation
\* esriSpatialRelIntersects and returnGeometry true; distance and units (meters)
\* are present exactly when a buffer_distance argument is supplied.
C22_SpatialRequest ==
    \A t \in Tasks :
        Sent(t) =>
            LET p == pass[t].params
                a == pass[t].args
            IN /\ HasKey(p, "geometry")
               /\ DictGet(p, "geometry")
                     = JsonDumps(<< [k |-> "xmin", v |-> a.envelope.xmin],
                                    [k |-> "ymin", v |-> a.envelope.ymin],
                                    [k |-> "xmax", v |-> a.envelope.xmax],
                                    [k |-> "ymax", v |-> a.envelope.ymax],
                                    [k |-> "spatialReference",
                                     v |-> << [k |-> "wkid", v |-> 4326] >>] >>)
               /\ Get(p, "geometryType", <<>>) = <<"esriGeometryEnvelope">>
               /\ Get(p, "spatialRel", <<>>) = <<"esriSpatialRelIntersects">>
               /\ Get(p, "returnGeometry", <<>>) = <<"true">>
               /\ HasKey(p, "distance") <=> a.buffer_distance.given
               /\ HasKey(p, "units") <=> a.buffer_distance.given
               /\ HasKey(p, "units") => DictGet(p, "units") = <<"esriSRUnit_Meter">>
               /\ HasKey(p, "distance") => DictGet(p, "distance") = a.buffer_distance.value

\* task t has sent the request of a data operation
Building(t) == pass[t].pc = "data_wait"

EndsWithSlash(u) == u # <<>> /\ u[Len(u)] = "/"

\* the path below the service a builder asks for
PathBelow(op, layer_id) ==
    <<"/">> \o layer_id \o (IF op = "get_layer_fields" THEN <<>> ELSE <<"/query">>)

\* C23 as stated: for every service_url u, the URL a query builder requests for u is
\* the URL it requests for u + '/'.
C23_SameTargetForEveryUrl ==
    \A t \in Tasks :
        Building(t) =>
            pass[t].cur.url
                = query_url(pass[t].op, pass[t].args.service_url \o <<"/">>,
                            pass[t].args.layer_id)

\* C23 as amended: for every service_url u that does not end with a separator, a
\* query builder requests the same URL for u and for u + '/'; a separator is
\* appended only when u does not end with one, and once, so that normalising
\* twice equals normalising once. (For u ending with '/', u + '/' ends with two
\* separators and is requested as it is.)
C23_SameTargetWithOrWithoutSlash ==
    \A t \in Tasks :
        Building(t) =>
            LET u == pass[t].args.service_url
                op == pass[t].op
                stem == IF EndsWithSlash(u) THEN SubSeq(u, 1, Len(u) - 1) ELSE u
            IN /\ pass[t].cur.url = stem \o PathBelow(op, pass[t].args.layer_id)
               /\ pass[t].cur.url = query_url(op, stem, pass[t].args.layer_id)
               /\ pass[t].cur.url
                     = query_url(op, stem \o <<"/">>, pass[t].args.layer_id)
               /\ WithSlash(WithSlash(u)) = WithSlash(u)
               /\ Len(WithSlash(u)) = Len(u) + (IF EndsWithSlash(u) THEN 0 ELSE 1)

C23_Witness ==
    /\ ret.op \in DataOps
    /\ EndsWithSlash(ret.args.service_url)
    /\ last_pass.reqs = << LeasesUrl \o <<"/", "0", "/query">> >>

\* whether the call of a tool that ends in this step installed a pass
InstalledNow == last_pass'.outcome = "installed" /\ cached_datasets' = last_pass'.all_datasets

\* C24: handle_call_tool never raises: for every tool name, unknown names included,
\* and every failure of the operation it returns exactly one text result; on
\* failure the text names the tool and carries the error message, and the cache is
\* as the operation left it.
C24_DispatcherNeverRaises ==
    [][(Returned /\ ret'.op \in ToolNames \cup {c.name : c \in RejectedCalls})
         => /\ Len(ret'.content) = 1
            /\ ret'.content[1].type = "text"
            /\ ret'.raised
                 => /\ ret'.content[1].text
                         = <<"Error executing ", ret'.op, ": ", ret'.error>>
                    /\ ret'.error # "none"
                    /\ \/ UNCHANGED <<known_services, cached_datasets, cached_services,
                                      last_refresh>>
                       \/ ret'.op = "get_dataset_info" /\ InstalledNow]_vars

C24_Witness ==
    /\ ret.op = "no_such_tool"
    /\ ret.raised
    /\ Len(ret.content) = 1
    /\ ret.content[1].text = <<"Error executing ", "no_such_tool", ": ",
                               "Unknown tool: no_such_tool">>

\* C25: a pass that is in flight when another request calls _add_known_service
\* still completes its walk and installs its working set: no pass ends abandoned,
\* with the cache and last_refresh not updated.
C25_ConcurrentAddHarmless ==
    [][\A t \in Tasks :
          (pass[t].pc # "idle" /\ pass'[t].pc = "idle")
              => /\ last_pass'.outcome = "installed"
                 /\ cached_datasets' = last_pass'.all_datasets
                 /\ last_refresh' = now]_vars

\* C26: when two passes overlap, a pass that started earlier than the pass whose
\* result the cache holds does not overwrite it: the cache never goes back from the
\* working set of a newer pass to that of an older one.
C26_OlderPassNeverOverwrites ==
    [][generation'.seq >= generation.seq]_vars

\* the tasks that are inside the walk of a discovery pass
InFlight == {t \in Tasks : Waiting(pass[t])}

\* C27: at most one discovery pass is in flight at any time: of several non-forced
\* requests that arrive while the cache is stale or empty, one performs the probe
\* sequence and the others start no second, overlapping pass.
C27_SinglePassInFlight ==
    Cardinality({t \in InFlight : ~pass[t].force}) <= 1 /\ Cardinality(InFlight) <= 1

\* task t ends, in this step, a pass in which no probe yielded anything
EndsAllFailed(t) ==
    /\ Waiting(pass[t])
    /\ pass'[t].pc = "idle"
    /\ last_pass'.outcome # "abandoned"
    /\ \A j \in DOMAIN last_pass'.res : last_pass'.res[j] # "ok"

ListedUris(datasets, services) ==
    {ListResources(datasets, services)[i].uri :
        i \in DOMAIN ListResources(datasets, services)}

\* the cached record a listed URI stands for
ListedRecord(uri, datasets, services) ==
    IF uri[1] = "ethekwini-gis://dataset/"
    THEN DictGet(datasets, Tail(uri))
    ELSE DictGet(services, Tail(uri))

\* C29: for every URI that handle_list_resources returns for the cache, datasets
\* and services, folder-qualified service names included, handle_read_resource on
\* that URI and the same cache returns the JSON of exactly that record and does
\* not raise 'Resource not found'.
C29_ListReadRoundTrip ==
    (ret.op = "read_resource"
        /\ ret.args.uri \in ListedUris(cached_datasets, cached_services))
        => /\ ~ret.raised
           /\ ret.out = <<"json.dumps",
                          ListedRecord(ret.args.uri, cached_datasets, cached_services)>>

\* C30: under any interleaving of concurrent requests get_server_instance constructs
\* at most one server, and no caller receives the instance before the pre-warm
\* discovery pass of the instance has finished.
C30_OneWarmInstance ==
    [][/\ server_instance' <= 1
       /\ (Returned /\ ret'.op = "spatial_query")
            => \A u \in Tasks : ~Waiting(pass'[u])]_vars

====
